---- MODULE Spec2Model ----
(***************************************************************************)
(* The storage envelope pipeline of react-unified-storage                  *)
(* (packages/core/src: core.ts, drivers, webstorage, memory, indexeddb,    *)
(* broadcast, crypto, compress) as a state machine.                        *)
(*                                                                         *)
(* One execution context (tab or server process) is modelled.  Every API   *)
(* call of a caller that awaits each call is one action (SpecInflight      *)
(* splits the calls at their awaits); what the platform                    *)
(* runs between two calls - the clock, the resolution of a key derivation, *)
(* the setTimeout(.., 0) clean-up of the fallback broadcast - are actions  *)
(* of their own.                                                           *)
(*                                                                         *)
(* Spec          the calls, on backends that accept every operation        *)
(* SpecReload    Spec with page reloads                                    *)
(* SpecFaults    the calls on a full web storage or without indexedDB      *)
(* SpecBroadcast the calls with subscribed callbacks, in this tab and in   *)
(*               another tab                                               *)
(* SpecSalt      SpecReload for encryption by a passphrase without salt    *)
(* SpecKeyFailure  Spec with key derivations that fail                     *)
(* SpecCorrupt   Spec on web storage that other code writes to             *)
(* SpecInflight  setup, write and remove with calls that are not awaited   *)
(* SpecSubscribers  the listener set of one BroadcastManager               *)
(* SpecCollections  the collection layer on top of the calls               *)
(* SpecVersions  Spec with caller-supplied envelope versions               *)
(* SpecDestroy   construction and teardown of one BroadcastManager         *)
(* SpecProvider  the calls under a StorageProvider that renders again      *)
(*                                                                         *)
(* Strings whose prefixes matter (namespaces, keys, storage keys) are      *)
(* sequences of characters.                                                *)
(***************************************************************************)
EXTENDS Integers, Sequences, FiniteSets, TLC

VARIABLES
    scope,             \* which slice of the input space this behaviour draws from
    env,               \* the execution context: window / BroadcastChannel defined
    globalConfig,      \* core.ts:8
    driver,            \* core.ts:9
    broadcastManager,  \* core.ts:10
    encryptionKey,     \* core.ts:11
    pendingKeys,       \* makeAesKey promises not yet settled (core.ts:56)
    memStore,          \* MemoryDriver.store of the active memory driver
    localStorage,      \* window.localStorage
    sessionStorage,    \* window.sessionStorage
    idb,               \* the IndexedDB databases, by database name
    timers,            \* pending setTimeout(removeItem, 0) of the fallback broadcast
    now,               \* Date.now()
    nCalls,            \* number of mutating API calls made so far
    lastMut,           \* the last setup / write / remove / clearAll call and its outcome:
                       \* err the rejection ("" if it resolved), persisted whether the
                       \* driver operation took effect, sent the notifications posted
    lastQuery,         \* the read / keys call made by the latest step, and its outcome
    listeners,         \* which BroadcastManagers of this context hold a subscribed callback
    inboxA,            \* notifications the latest call delivered to callbacks of this context
    inboxB,            \* notifications delivered, since the latest call, to the callback
                       \* subscribed in another tab
    managerListeners,  \* BroadcastManager.listeners of the current manager (core.ts:389)
    unsubscribers,     \* the functions BroadcastManager.subscribe has returned, in order:
                       \* the callback each closes over, and whether it has been called
    invoked,           \* the callbacks the latest message was passed to
    inflight,          \* the write and remove calls nobody awaited, in the order issued:
                       \* where each is suspended and the locals it holds
    journal,           \* the calls of inflight in the order their driver operation
                       \* took effect
    members,           \* for each collection name, the items added through the
                       \* collection and not removed through it since
    provider           \* the mounted StorageProvider: its config prop at the last
                       \* render, and whether its effect is still to run

vars == <<scope, env, globalConfig, driver, broadcastManager, encryptionKey, pendingKeys,
          memStore, localStorage, sessionStorage, idb, timers, now, nCalls,
          lastMut, lastQuery, listeners, inboxA, inboxB,
          managerListeners, unsubscribers, invoked, inflight, journal, members,
          provider>>

(***************************************************************************)
(* Bounds and input domains                                                *)
(***************************************************************************)
MaxTime == 3
MaxCalls == 4

NoNs == <<>>
DefaultNamespace == <<"rus">>
Namespaces == {NoNs, <<"a">>, <<"a", ":", "b">>}
Keys == {<<"x">>, <<"b", ":", "x">>}
Prefixes == {<<>>, <<"b">>}
DriverNames == {"memory", "local", "session", "idb", "auto"}
CollectionNames == {<<"a">>, <<"a", ":", "b">>, <<"c">>}
Ids == {"1", "2"}

Undefined == -1
TtlValues == {Undefined, 0, 1}
VersionValues == {Undefined, 3}
VersionOptions == {Undefined, 0, 2, 3}
Schemas == {"none", "rejects"}

NoEnc == [key |-> "", salt |-> ""]
Encryptions == {NoEnc, [key |-> "p1", salt |-> "s1"]}
NoKey == <<>>

JsNull == [t |-> "null", s |-> ""]
JsValues == {[t |-> "number", s |-> "0"], [t |-> "string", s |-> "hello"]}

\* window / BroadcastChannel / indexedDB are defined in the execution context
Browser == [window |-> TRUE, bc |-> TRUE, idb |-> TRUE]
BrowserNoChannel == [window |-> TRUE, bc |-> FALSE, idb |-> TRUE]
BrowserNoIndexedDB == [window |-> TRUE, bc |-> TRUE, idb |-> FALSE]
Server == [window |-> FALSE, bc |-> FALSE, idb |-> FALSE]

(***************************************************************************)
(* A behaviour draws its inputs from one slice of the input space: each    *)
(* slice varies some settings and fixes the others.                        *)
(***************************************************************************)
Scopes == {"namespaces", "transforms", "expiry", "drivers"}

Environments(sc) ==
    CASE sc = "namespaces" -> {Browser, BrowserNoChannel}
      [] sc = "transforms" -> {Browser, BrowserNoChannel}
      [] sc = "expiry" -> {Browser, BrowserNoChannel}
      [] sc = "drivers" -> {Browser, BrowserNoChannel, Server}
      [] sc = "faults" -> {Browser, BrowserNoChannel, BrowserNoIndexedDB}
      [] sc = "broadcast" -> {Browser, BrowserNoChannel}
      [] sc = "inflight" -> {Browser, BrowserNoChannel}
      [] sc = "salt" -> {Browser, BrowserNoChannel}
      [] sc = "versions" -> {Browser, BrowserNoChannel}
      [] sc = "collections" -> {Browser, Server}

Configs(sc) ==
    CASE sc = "namespaces" ->
           [namespace : Namespaces, driver : {"local"}, broadcast : BOOLEAN,
            encryption : {NoEnc}, compression : {FALSE}]
      [] sc = "transforms" ->
           [namespace : {<<"a">>}, driver : {"local"}, broadcast : {TRUE},
            encryption : Encryptions, compression : BOOLEAN]
      [] sc = "expiry" ->
           [namespace : {<<"a">>}, driver : {"local"}, broadcast : {TRUE},
            encryption : {NoEnc}, compression : {FALSE}]
      [] sc = "drivers" ->
           [namespace : {<<"a">>}, driver : DriverNames, broadcast : {TRUE},
            encryption : {NoEnc}, compression : {FALSE}]
      [] sc = "faults" ->
           [namespace : {<<"a">>}, driver : DriverNames, broadcast : {TRUE},
            encryption : {NoEnc}, compression : {FALSE}]
      [] sc = "broadcast" ->
           [namespace : {<<"a">>}, driver : {"memory", "local"}, broadcast : {TRUE},
            encryption : {NoEnc}, compression : {FALSE}]
      [] sc = "collections" ->
           [namespace : {NoNs}, driver : {"memory", "local"}, broadcast : {TRUE},
            encryption : {NoEnc}, compression : {FALSE}]
      [] sc = "versions" ->
           [namespace : {<<"a">>}, driver : {"local"}, broadcast : {TRUE},
            encryption : Encryptions, compression : BOOLEAN]
      [] sc = "salt" ->
           [namespace : {<<"a">>}, driver : {"local"}, broadcast : {TRUE},
            encryption : {[key |-> "p1", salt |-> ""]}, compression : {FALSE}]
      [] sc = "inflight" ->
           LET plain == [namespace |-> <<"a">>, driver |-> "local", broadcast |-> TRUE,
                         encryption |-> NoEnc, compression |-> FALSE]
           IN {plain,
               [plain EXCEPT !.namespace = <<"a", ":", "b">>],
               [plain EXCEPT !.driver = "memory"],
               [plain EXCEPT !.encryption = [key |-> "p1", salt |-> "s1"],
                             !.compression = TRUE]}

Hello == [t |-> "string", s |-> "hello"]

WriteArgs(sc) ==
    CASE sc = "namespaces" -> [data : {Hello}, v : {Undefined}, ttlMs : {Undefined}]
      [] sc = "transforms" -> [data : JsValues, v : VersionValues, ttlMs : {Undefined}]
      [] sc = "expiry" -> [data : {Hello}, v : {Undefined}, ttlMs : TtlValues]
      [] sc = "drivers" -> [data : {Hello}, v : {Undefined}, ttlMs : {Undefined}]
      [] sc = "faults" -> [data : {Hello}, v : {Undefined}, ttlMs : {Undefined}]
      [] sc = "broadcast" -> [data : {Hello}, v : {Undefined}, ttlMs : {Undefined}]
      [] sc = "inflight" -> [data : JsValues, v : {Undefined}, ttlMs : {Undefined}]
      [] sc = "salt" -> [data : {Hello}, v : {Undefined}, ttlMs : {Undefined}]
      [] sc = "versions" -> [data : {Hello}, v : VersionOptions, ttlMs : {Undefined}]
      [] sc = "collections" -> [data : JsValues, v : {Undefined}, ttlMs : {Undefined}]

KeysOf(sc) == IF sc = "namespaces" THEN Keys ELSE {<<"x">>}

PrefixesOf(sc) == IF sc = "namespaces" THEN Prefixes ELSE {<<>>}

(***************************************************************************)
(* Strings                                                                 *)
(***************************************************************************)
startsWith(s, p) == Len(p) <= Len(s) /\ SubSeq(s, 1, Len(p)) = p

slice(s, n) == SubSeq(s, n + 1, Len(s))

Max(a, b) == IF a >= b THEN a ELSE b

(***************************************************************************)
(* JSON, crypto and compression transforms.  A payload is the JSON text    *)
(* of the value and the stack of encodings applied on top of it.           *)
(***************************************************************************)
JSONstringify(value) ==
    [wraps |-> <<>>,
     text |-> IF value.t = "string" THEN <<"\"", value.s, "\"">> ELSE <<value.s>>]

Thrown == [ok |-> FALSE, val |-> JsNull]

JSONparse(data) ==
    IF data.wraps # <<>> THEN Thrown
    ELSE IF Len(data.text) = 3 /\ data.text[1] = "\"" /\ data.text[3] = "\""
         THEN [ok |-> TRUE, val |-> [t |-> "string", s |-> data.text[2]]]
    ELSE IF Len(data.text) = 1 /\ data.text[1] = "null"
         THEN [ok |-> TRUE, val |-> JsNull]
    ELSE IF Len(data.text) = 1 /\ data.text[1] \in {"0", "1"}
         THEN [ok |-> TRUE, val |-> [t |-> "number", s |-> data.text[1]]]
    ELSE Thrown

\* what crypto.getRandomValues may give as the salt when none is passed
RandomSalts == {"r1", "r2"}

\* the salts makeAesKey may derive with: salt ? encode(salt) : getRandomValues(..)
saltBytes(salt) == IF salt # "" THEN {salt} ELSE RandomSalts

\* the keys makeAesKey(password, salt) may resolve to
makeAesKey(enc) == {<<enc.key, bytes>> : bytes \in saltBytes(enc.salt)}

encrypt(data, key) == [data EXCEPT !.wraps = Append(@, <<"aes-gcm">> \o key)]

NoData == [wraps |-> <<>>, text |-> <<>>]
ThrownData == [ok |-> FALSE, val |-> NoData]

decrypt(data, key) ==
    IF data.wraps # <<>> /\ data.wraps[Len(data.wraps)] = <<"aes-gcm">> \o key
    THEN [ok |-> TRUE, val |-> [data EXCEPT !.wraps = SubSeq(@, 1, Len(@) - 1)]]
    ELSE ThrownData

\* btoa(String.fromCharCode(...await compress(data)))
compress(data) == [data EXCEPT !.wraps = Append(@, <<"gzip">>)]

\* decompress(new Uint8Array(atob(data)...))
decompress(data) ==
    IF data.wraps # <<>> /\ data.wraps[Len(data.wraps)] = <<"gzip">>
    THEN [ok |-> TRUE, val |-> [data EXCEPT !.wraps = SubSeq(@, 1, Len(@) - 1)]]
    ELSE ThrownData

(***************************************************************************)
(* Stores.  A store maps storage keys to items.  An item holds an envelope *)
(* (as an object, a structured clone or its JSON text) or, in web storage, *)
(* the text "null" or a text that is not JSON; `by` records the namespace  *)
(* configured by the call that stored it.                                  *)
(***************************************************************************)
NoEnvelope == [v |-> 0, data |-> NoData, createdAt |-> 0, updatedAt |-> 0,
               expiresAt |-> Undefined]

EmptyStore == [k \in {} |-> 0]

Item(envelope, ns) == [json |-> "envelope", e |-> envelope, by |-> ns]

NullItem(ns) == [json |-> "null", e |-> NoEnvelope, by |-> ns]

\* a text JSON.parse throws on, stored by other code of the page
CorruptItem == [json |-> "corrupt", e |-> NoEnvelope, by |-> NoNs]

setItem(store, key, item) ==
    [k \in DOMAIN store \cup {key} |-> IF k = key THEN item ELSE store[k]]

removeItem(store, key) == [k \in DOMAIN store \ {key} |-> store[k]]

DbNames == (Namespaces \ {NoNs}) \cup {DefaultNamespace}

(***************************************************************************)
(* createDriver                                                            *)
(***************************************************************************)
isSSR == ~env.window

NoDriver == [kind |-> "none", dbName |-> <<>>]

MemoryDriver == [kind |-> "memory", dbName |-> <<>>]

WebStorageDriver(type) == [kind |-> type, dbName |-> <<>>]

IndexedDBDriver(namespace) ==
    [kind |-> "idb", dbName |-> IF namespace = NoNs THEN DefaultNamespace ELSE namespace]

\* a factory that answers an unavailable backend with the memory driver
createDriverFallingBack(name, namespace) ==
    CASE name = "memory" -> [ok |-> TRUE, val |-> MemoryDriver]
      [] name = "local" -> IF isSSR THEN [ok |-> TRUE, val |-> MemoryDriver]
                           ELSE [ok |-> TRUE, val |-> WebStorageDriver("local")]
      [] name = "session" -> IF isSSR THEN [ok |-> TRUE, val |-> MemoryDriver]
                             ELSE [ok |-> TRUE, val |-> WebStorageDriver("session")]
      [] name = "idb" -> IF isSSR THEN [ok |-> TRUE, val |-> MemoryDriver]
                         ELSE [ok |-> TRUE, val |-> IndexedDBDriver(namespace)]
      [] name = "auto" -> IF isSSR THEN [ok |-> TRUE, val |-> MemoryDriver]
                          ELSE [ok |-> TRUE, val |-> IndexedDBDriver(namespace)]

createDriver(name, namespace) ==
    CASE name = "memory" -> [ok |-> TRUE, val |-> MemoryDriver]
      [] name = "local" -> IF isSSR THEN [ok |-> FALSE, val |-> NoDriver]
                           ELSE [ok |-> TRUE, val |-> WebStorageDriver("local")]
      [] name = "session" -> IF isSSR THEN [ok |-> FALSE, val |-> NoDriver]
                             ELSE [ok |-> TRUE, val |-> WebStorageDriver("session")]
      [] name = "idb" -> IF isSSR THEN [ok |-> FALSE, val |-> NoDriver]
                         ELSE [ok |-> TRUE, val |-> IndexedDBDriver(namespace)]
      [] name = "auto" -> IF isSSR THEN [ok |-> TRUE, val |-> MemoryDriver]
                          ELSE [ok |-> TRUE, val |-> IndexedDBDriver(namespace)]

(***************************************************************************)
(* BroadcastManager                                                        *)
(***************************************************************************)
NoManager == [namespace |-> <<>>, transport |-> "null"]

BroadcastManager(namespace) ==
    [namespace |-> IF namespace = NoNs THEN DefaultNamespace ELSE namespace,
     transport |-> IF env.bc THEN "channel"
                   ELSE IF env.window THEN "storage" ELSE "none"]

(***************************************************************************)
(* Initial state                                                           *)
(***************************************************************************)
NoConfig == [namespace |-> NoNs, driver |-> "null", broadcast |-> TRUE,
             encryption |-> NoEnc, compression |-> FALSE]

NoCall == [op |-> "none"]

\* no StorageProvider is mounted
NoProvider == [config |-> NoConfig, effect |-> FALSE]

\* no callback is subscribed: neither with the current manager nor with an older one
NoListeners == [current |-> FALSE, old |-> {}]

\* the state of a freshly loaded context that draws its inputs from slice sc
Fresh(sc) ==
    /\ scope = sc
    /\ env \in Environments(sc)
    /\ globalConfig = NoConfig
    /\ driver = NoDriver
    /\ broadcastManager = NoManager
    /\ encryptionKey = NoKey
    /\ pendingKeys = {}
    /\ memStore = EmptyStore
    /\ localStorage = EmptyStore
    /\ sessionStorage = EmptyStore
    /\ idb = [d \in DbNames |-> EmptyStore]
    /\ now = 1
    /\ timers = <<>>
    /\ nCalls = 0
    /\ lastMut = NoCall
    /\ lastQuery = NoCall
    /\ listeners = NoListeners
    /\ inboxA = <<>>
    /\ inboxB = <<>>
    /\ managerListeners = {}
    /\ unsubscribers = <<>>
    /\ invoked = {}
    /\ inflight = <<>>
    /\ journal = <<>>
    /\ members = [name \in CollectionNames |-> {}]
    /\ provider = NoProvider

Init == \E sc \in Scopes : Fresh(sc)

(***************************************************************************)
(* Driver operations (memory.ts, webstorage.ts, indexeddb.ts) on the       *)
(* stores of the context                                                   *)
(***************************************************************************)
Stores == [mem |-> memStore, local |-> localStorage, session |-> sessionStorage,
           idb |-> idb]

storeOf(S, drv) ==
    CASE drv.kind = "memory" -> S.mem
      [] drv.kind = "local" -> S.local
      [] drv.kind = "session" -> S.session
      [] drv.kind = "idb" -> S.idb[drv.dbName]
      [] OTHER -> EmptyStore

withStore(S, drv, store) ==
    CASE drv.kind = "memory" -> [S EXCEPT !.mem = store]
      [] drv.kind = "local" -> [S EXCEPT !.local = store]
      [] drv.kind = "session" -> [S EXCEPT !.session = store]
      [] drv.kind = "idb" -> [S EXCEPT !.idb[drv.dbName] = store]
      [] OTHER -> S

\* a read that hands back whatever is stored, without parsing it
driverReadUnparsed(S, drv, key) ==
    LET store == storeOf(S, drv) IN
    IF key \in DOMAIN store
    THEN [found |-> TRUE, e |-> store[key].e]
    ELSE [found |-> FALSE, e |-> NoEnvelope]

\* Map.get / getItem + JSON.parse / objectStore.get: the envelope, or null; null
\* as well for the text "null" and, JSON.parse throwing into the catch, for a
\* text that is not JSON
driverRead(S, drv, key) ==
    LET store == storeOf(S, drv) IN
    IF key \in DOMAIN store /\ store[key].json = "envelope"
    THEN [found |-> TRUE, e |-> store[key].e]
    ELSE [found |-> FALSE, e |-> NoEnvelope]

\* a read path that sweeps the record it finds expired
driverReadSweeping(S, drv, key) ==
    LET store == storeOf(S, drv) IN
    IF key \in DOMAIN store /\ store[key].e.expiresAt # Undefined
                             /\ now > store[key].e.expiresAt
    THEN withStore(S, drv, removeItem(store, key))
    ELSE S

\* the stores after driver.read: no driver's read writes
driverReadStores(S, drv, key) == S

driverWrite(S, drv, key, item) == withStore(S, drv, setItem(storeOf(S, drv), key, item))

driverRemove(S, drv, key) == withStore(S, drv, removeItem(storeOf(S, drv), key))

\* a clear that empties the memory map whatever the driver is
driverClearAllMemoryOnly(S, drv) == [S EXCEPT !.mem = EmptyStore]

driverClearAll(S, drv) == withStore(S, drv, EmptyStore)

RECURSIVE SetToSeq(_)
SetToSeq(set) ==
    IF set = {} THEN <<>>
    ELSE LET k == CHOOSE k \in set : TRUE IN <<k>> \o SetToSeq(set \ {k})

RECURSIVE filter(_, _)
filter(seq, prefix) ==
    IF seq = <<>> THEN <<>>
    ELSE IF startsWith(Head(seq), prefix) THEN <<Head(seq)>> \o filter(Tail(seq), prefix)
    ELSE filter(Tail(seq), prefix)

\* prefix <<>> stands for an undefined (or empty) prefix: nothing is filtered
driverKeys(S, drv, prefix) == filter(SetToSeq(DOMAIN storeOf(S, drv)), prefix)

(***************************************************************************)
(* BroadcastManager.broadcast: a message on the channel, or, without       *)
(* BroadcastChannel, an item set in localStorage and removed by a timer    *)
(***************************************************************************)
broadcastKey(mgr, key) == mgr.namespace \o <<":">> \o key

broadcastStores(S, mgr, key, item) ==
    IF mgr.transport = "storage"
    THEN [S EXCEPT !.local = setItem(@, broadcastKey(mgr, key), item)]
    ELSE S

broadcastTimers(tm, mgr, key) ==
    IF mgr.transport = "storage" THEN Append(tm, broadcastKey(mgr, key)) ELSE tm

broadcastSent(mgr, key, item) ==
    IF mgr.transport \in {"channel", "storage"}
    THEN <<[via |-> mgr.transport, key |-> key, item |-> item]>>
    ELSE <<>>

SetStores(S) ==
    /\ memStore' = S.mem
    /\ localStorage' = S.local
    /\ sessionStorage' = S.session
    /\ idb' = S.idb

(***************************************************************************)
(* core.ts                                                                 *)
(***************************************************************************)
\* a guard that tests the configuration instead of the driver
NotInitializedWrongVariable == globalConfig = NoConfig

\* if (!driver) throw new Error('Storage not initialized. Call setup() first.')
NotInitialized == driver = NoDriver

getEnvelopeKey(key) ==
    IF globalConfig.namespace # NoNs THEN globalConfig.namespace \o <<":">> \o key
    ELSE key

\* setup that keeps the Map of the previous MemoryDriver
setupKeepingStore(config) ==
    LET created == createDriver(config.driver, config.namespace) IN
    /\ nCalls < MaxCalls
    /\ nCalls' = nCalls + 1
    /\ globalConfig' = config
    /\ lastQuery' = NoCall
    /\ UNCHANGED <<scope, env, encryptionKey, localStorage, sessionStorage, idb, timers, now>>
    /\ IF created.ok
       THEN /\ driver' = created.val
            /\ memStore' = memStore
            /\ broadcastManager' = IF config.broadcast THEN BroadcastManager(config.namespace)
                                   ELSE broadcastManager
            /\ IF config.encryption # NoEnc
               THEN \E key \in makeAesKey(config.encryption) :
                        pendingKeys' = pendingKeys \cup {key}
               ELSE pendingKeys' = pendingKeys
            /\ lastMut' = [op |-> "setup", err |-> "", sent |-> <<>>]
       ELSE /\ UNCHANGED <<driver, memStore, broadcastManager, pendingKeys>>
            /\ lastMut' = [op |-> "setup", err |-> "driver-unavailable", sent |-> <<>>]


setup(config) ==
    LET created == createDriver(config.driver, config.namespace) IN
    /\ nCalls < MaxCalls
    /\ nCalls' = nCalls + 1
    /\ globalConfig' = config
    /\ lastQuery' = NoCall
    /\ UNCHANGED <<scope, env, encryptionKey, localStorage, sessionStorage, idb, timers, now>>
    /\ IF created.ok
       THEN /\ driver' = created.val
            /\ memStore' = EmptyStore
            /\ broadcastManager' = IF config.broadcast THEN BroadcastManager(config.namespace)
                                   ELSE broadcastManager
            /\ IF config.encryption # NoEnc
               THEN \E key \in makeAesKey(config.encryption) :
                        pendingKeys' = pendingKeys \cup {key}
               ELSE pendingKeys' = pendingKeys
            /\ lastMut' = [op |-> "setup", err |-> "", sent |-> <<>>]
       ELSE /\ UNCHANGED <<driver, memStore, broadcastManager, pendingKeys>>
            /\ lastMut' = [op |-> "setup", err |-> "driver-unavailable", sent |-> <<>>]

\* makeAesKey(..).then(key => { encryptionKey = key })
KeyResolved(key) ==
    /\ key \in pendingKeys
    /\ encryptionKey' = key
    /\ pendingKeys' = pendingKeys \ {key}
    /\ lastQuery' = NoCall
    /\ UNCHANGED <<scope, env, globalConfig, driver, broadcastManager, memStore, localStorage,
                   sessionStorage, idb, timers, now, nCalls, lastMut>>

processWrite(data, version, ttlMs) ==
    LET json == JSONstringify(data)
        encrypted == IF encryptionKey # NoKey THEN encrypt(json, encryptionKey) ELSE json
        v1 == IF encryptionKey # NoKey THEN Max(version, 3) ELSE version
        compressed == IF globalConfig.compression THEN compress(encrypted) ELSE encrypted
        v2 == IF globalConfig.compression THEN Max(v1, 2) ELSE v1
    IN [v |-> v2, data |-> compressed, createdAt |-> now, updatedAt |-> now,
        expiresAt |-> IF ttlMs # Undefined /\ ttlMs # 0 THEN now + ttlMs ELSE Undefined]

write(key, data, v, ttlMs) ==
    /\ nCalls < MaxCalls
    /\ nCalls' = nCalls + 1
    /\ lastQuery' = NoCall
    /\ UNCHANGED <<scope, env, globalConfig, driver, broadcastManager, encryptionKey,
                   pendingKeys, now>>
    /\ IF NotInitialized
       THEN /\ lastMut' = [op |-> "write", key |-> key, err |-> "not-initialized",
                           persisted |-> FALSE, sent |-> <<>>]
            /\ UNCHANGED <<memStore, localStorage, sessionStorage, idb, timers>>
       ELSE LET envelope == processWrite(data, IF v = Undefined THEN 1 ELSE v, ttlMs)
                item == Item(envelope, globalConfig.namespace)
                written == driverWrite(Stores, driver, getEnvelopeKey(key), item)
            IN /\ SetStores(broadcastStores(written, broadcastManager, key, item))
               /\ timers' = broadcastTimers(timers, broadcastManager, key)
               /\ lastMut' = [op |-> "write", key |-> key, err |-> "", data |-> data,
                              v |-> v, ttlMs |-> ttlMs, at |-> now,
                              envelope |-> envelope, persisted |-> TRUE,
                              sent |-> broadcastSent(broadcastManager, key, item)]

\* setTimeout(() => window.localStorage.removeItem(storageKey), 0)
TimerFired ==
    /\ timers # <<>>
    /\ localStorage' = removeItem(localStorage, Head(timers))
    /\ timers' = Tail(timers)
    /\ lastQuery' = NoCall
    /\ UNCHANGED <<scope, env, globalConfig, driver, broadcastManager, encryptionKey,
                   pendingKeys, memStore, sessionStorage, idb, now, nCalls, lastMut>>

Tick ==
    /\ now < MaxTime
    /\ now' = now + 1
    /\ lastQuery' = NoCall
    /\ UNCHANGED <<scope, env, globalConfig, driver, broadcastManager, encryptionKey,
                   pendingKeys, memStore, localStorage, sessionStorage, idb, timers,
                   nCalls, lastMut>>

remove(key) ==
    /\ nCalls < MaxCalls
    /\ nCalls' = nCalls + 1
    /\ lastQuery' = NoCall
    /\ UNCHANGED <<scope, env, globalConfig, driver, broadcastManager, encryptionKey,
                   pendingKeys, now>>
    /\ IF NotInitialized
       THEN /\ lastMut' = [op |-> "remove", key |-> key, err |-> "not-initialized",
                           persisted |-> FALSE, sent |-> <<>>]
            /\ UNCHANGED <<memStore, localStorage, sessionStorage, idb, timers>>
       ELSE LET item == NullItem(globalConfig.namespace)
                removed == driverRemove(Stores, driver, getEnvelopeKey(key))
            IN /\ SetStores(broadcastStores(removed, broadcastManager, key, item))
               /\ timers' = broadcastTimers(timers, broadcastManager, key)
               /\ lastMut' = [op |-> "remove", key |-> key, err |-> "", at |-> now,
                              persisted |-> TRUE,
                              sent |-> broadcastSent(broadcastManager, key, item)]

clearAll ==
    /\ nCalls < MaxCalls
    /\ nCalls' = nCalls + 1
    /\ lastQuery' = NoCall
    /\ UNCHANGED <<scope, env, globalConfig, driver, broadcastManager, encryptionKey,
                   pendingKeys, timers, now>>
    /\ IF NotInitialized
       THEN /\ lastMut' = [op |-> "clearAll", err |-> "not-initialized",
                           persisted |-> FALSE, sent |-> <<>>]
            /\ UNCHANGED <<memStore, localStorage, sessionStorage, idb>>
       ELSE /\ SetStores(driverClearAll(Stores, driver))
            /\ lastMut' = [op |-> "clearAll", err |-> "", at |-> now,
                           persisted |-> TRUE, sent |-> <<>>]

Returned(value, outcome) == [val |-> value, outcome |-> outcome]

\* a read path without the `else if (!encryptionKey && envelope.v >= 3)` branch
processReadNoKeyBranch(envelope) ==
    IF envelope.expiresAt # Undefined /\ envelope.expiresAt # 0 /\ now > envelope.expiresAt
    THEN Returned(JsNull, "expired")
    ELSE LET gz == globalConfig.compression /\ envelope.v >= 2
             decompressed == IF gz THEN decompress(envelope.data)
                             ELSE [ok |-> TRUE, val |-> envelope.data]
             aes == encryptionKey # NoKey /\ envelope.v >= 3
             decrypted == IF aes THEN decrypt(decompressed.val, encryptionKey)
                          ELSE decompressed
             parsed == JSONparse(decrypted.val)
         IN IF ~decompressed.ok THEN Returned(JsNull, "thrown")
            ELSE IF ~decrypted.ok THEN Returned(JsNull, "thrown")
            ELSE IF ~parsed.ok THEN Returned(JsNull, "thrown")
            ELSE Returned(parsed.val, "found")

processRead(envelope) ==
    IF envelope.expiresAt # Undefined /\ envelope.expiresAt # 0 /\ now > envelope.expiresAt
    THEN Returned(JsNull, "expired")
    ELSE LET gz == globalConfig.compression /\ envelope.v >= 2
             decompressed == IF gz THEN decompress(envelope.data)
                             ELSE [ok |-> TRUE, val |-> envelope.data]
             aes == encryptionKey # NoKey /\ envelope.v >= 3
             decrypted == IF aes THEN decrypt(decompressed.val, encryptionKey)
                          ELSE decompressed
             parsed == JSONparse(decrypted.val)
         IN IF ~decompressed.ok THEN Returned(JsNull, "thrown")
            ELSE IF ~decrypted.ok THEN Returned(JsNull, "thrown")
            ELSE IF encryptionKey = NoKey /\ envelope.v >= 3 THEN Returned(JsNull, "no-key")
            ELSE IF ~parsed.ok THEN Returned(JsNull, "thrown")
            ELSE Returned(parsed.val, "found")

\* the value read(key, schema) resolves to, and why
readResult(key, schema) ==
    LET got == driverRead(Stores, driver, getEnvelopeKey(key))
        data == processRead(got.e)
    IN IF ~got.found THEN Returned(JsNull, "absent")
       ELSE IF data.outcome = "thrown" THEN Returned(JsNull, "transform-failure")
       ELSE IF schema = "rejects" THEN Returned(JsNull, "validation-failure")
       ELSE data

read(key, schema) ==
    /\ UNCHANGED <<scope, env, globalConfig, driver, broadcastManager, encryptionKey,
                   pendingKeys, timers, now, nCalls, lastMut>>
    /\ IF NotInitialized
       THEN /\ lastQuery' = [op |-> "read", key |-> key, err |-> "not-initialized"]
            /\ UNCHANGED <<memStore, localStorage, sessionStorage, idb>>
       ELSE /\ SetStores(driverReadStores(Stores, driver, getEnvelopeKey(key)))
            /\ lastQuery' = [op |-> "read", key |-> key, err |-> "", schema |-> schema,
                             at |-> now, res |-> readResult(key, schema)]

RECURSIVE strip(_, _)
strip(seq, n) ==
    IF seq = <<>> THEN <<>> ELSE <<slice(Head(seq), n)>> \o strip(Tail(seq), n)

keysResult(prefix) ==
    LET ns == globalConfig.namespace
        allKeys == driverKeys(Stores, driver, IF ns # NoNs THEN ns \o <<":">> ELSE <<>>)
        strippedKeys == IF ns # NoNs THEN strip(allKeys, Len(ns) + 1) ELSE allKeys
    IN filter(strippedKeys, prefix)

keys(prefix) ==
    /\ UNCHANGED <<scope, env, globalConfig, driver, broadcastManager, encryptionKey,
                   pendingKeys, memStore, localStorage, sessionStorage, idb, timers,
                   now, nCalls, lastMut>>
    /\ IF NotInitialized
       THEN lastQuery' = [op |-> "keys", prefix |-> prefix, err |-> "not-initialized"]
       ELSE lastQuery' = [op |-> "keys", prefix |-> prefix, err |-> "", at |-> now,
                          res |-> keysResult(prefix)]

\* driver?.driverId() || 'none'
driverId == IF driver = NoDriver THEN "none" ELSE driver.kind

\* nobody subscribes and no other tab listens
Quiet == UNCHANGED <<listeners, inboxA, inboxB, managerListeners, unsubscribers, invoked,
                     inflight, journal, members, provider>>

Next ==
    \/ \E config \in Configs(scope) : setup(config) /\ Quiet
    \/ \E key \in pendingKeys : KeyResolved(key) /\ Quiet
    \/ \E key \in KeysOf(scope), args \in WriteArgs(scope) :
           write(key, args.data, args.v, args.ttlMs) /\ Quiet
    \/ \E key \in KeysOf(scope) : remove(key) /\ Quiet
    \/ clearAll /\ Quiet
    \/ \E key \in KeysOf(scope), schema \in Schemas : read(key, schema) /\ Quiet
    \/ \E prefix \in PrefixesOf(scope) : keys(prefix) /\ Quiet
    \/ TimerFired /\ Quiet
    \/ Tick /\ Quiet

Spec == Init /\ [][Next]_vars

(***************************************************************************)
(* The page is loaded again: the module state is initialised anew          *)
(* (core.ts:8-12), pending timers and key derivations of the old page are  *)
(* gone, the memory driver's map is gone; localStorage, sessionStorage and *)
(* IndexedDB keep what they hold.                                          *)
(***************************************************************************)
Reload ==
    /\ env.window
    /\ nCalls < MaxCalls
    /\ nCalls' = nCalls + 1
    /\ globalConfig' = NoConfig
    /\ driver' = NoDriver
    /\ broadcastManager' = NoManager
    /\ encryptionKey' = NoKey
    /\ pendingKeys' = {}
    /\ memStore' = EmptyStore
    /\ timers' = <<>>
    /\ lastMut' = [op |-> "reload", err |-> "", sent |-> <<>>]
    /\ lastQuery' = NoCall
    /\ UNCHANGED <<scope, env, localStorage, sessionStorage, idb, now>>

InitReload == Init /\ scope = "transforms"

NextReload == Next \/ (Reload /\ Quiet)

SpecReload == InitReload /\ [][NextReload]_vars

(***************************************************************************)
(* A key derivation may fail: crypto.subtle is undefined outside a secure  *)
(* context, and importKey and deriveKey may reject.                        *)
(***************************************************************************)
\* makeAesKey(..).catch(error => { console.error(..); globalConfig?.errorHandler?.(error) })
KeyRejected(key) ==
    /\ key \in pendingKeys
    /\ pendingKeys' = pendingKeys \ {key}
    /\ lastMut' = [op |-> "makeAesKey", err |-> "key-derivation-failed", sent |-> <<>>,
                   handled |-> <<"key-derivation-failed">>]
    /\ lastQuery' = NoCall
    /\ UNCHANGED <<scope, env, globalConfig, driver, broadcastManager, encryptionKey,
                   memStore, localStorage, sessionStorage, idb, timers, now, nCalls>>

InitKeyFailure == Fresh("transforms")

NextKeyFailure ==
    \/ Next
    \/ \E key \in pendingKeys : KeyRejected(key) /\ Quiet

SpecKeyFailure == InitKeyFailure /\ [][NextKeyFailure]_vars

(***************************************************************************)
(* Other code of the page shares localStorage and sessionStorage and may   *)
(* store any text under any key.                                           *)
(***************************************************************************)
corrupts(type, key) ==
    /\ env.window
    /\ localStorage' = IF type = "local" THEN setItem(localStorage, key, CorruptItem)
                       ELSE localStorage
    /\ sessionStorage' = IF type = "session" THEN setItem(sessionStorage, key, CorruptItem)
                         ELSE sessionStorage
    /\ lastQuery' = NoCall
    /\ UNCHANGED <<scope, env, globalConfig, driver, broadcastManager, encryptionKey,
                   pendingKeys, memStore, idb, timers, now, nCalls, lastMut>>

InitCorrupt == Fresh("drivers")

NextCorrupt ==
    \/ \E config \in Configs(scope) : setup(config) /\ Quiet
    \/ \E key \in KeysOf(scope), args \in WriteArgs(scope) :
           write(key, args.data, args.v, args.ttlMs) /\ Quiet
    \/ \E key \in KeysOf(scope) : remove(key) /\ Quiet
    \/ clearAll /\ Quiet
    \/ \E key \in KeysOf(scope), schema \in Schemas : read(key, schema) /\ Quiet
    \/ \E prefix \in PrefixesOf(scope) : keys(prefix) /\ Quiet
    \/ TimerFired /\ Quiet
    \/ Tick /\ Quiet
    \/ \E type \in {"local", "session"}, key \in KeysOf(scope) :
           corrupts(type, <<"a", ":">> \o key) /\ Quiet

SpecCorrupt == InitCorrupt /\ [][NextCorrupt]_vars

\* the calls of a caller that passes any number as options.v
InitVersions == Fresh("versions")

SpecVersions == InitVersions /\ [][Next]_vars

\* the calls and page reloads of a context that configures encryption by a
\* passphrase alone
InitSalt == Fresh("salt")

SpecSalt == InitSalt /\ [][NextReload]_vars

(***************************************************************************)
(* Backend faults.  A web storage that is full throws from setItem         *)
(* (QuotaExceededError); where indexedDB is not defined, ensureDB rejects  *)
(* and with it every operation of the IndexedDB driver.  The memory driver *)
(* never fails.  `handled` lists the errors passed to                      *)
(* globalConfig.errorHandler by the call.                                  *)
(***************************************************************************)
BackendUp == driver.kind = "idb" => env.idb

QuotaExceeded == driver.kind \in {"local", "session"}

IndexedDBDown == driver.kind = "idb" /\ ~env.idb

\* write when driver.write fails: WebStorageDriver.write swallows the exception
\* and write goes on to broadcast; IndexedDBDriver.write rejects and write with it
writeFailing(key, data, v, ttlMs) ==
    LET envelope == processWrite(data, IF v = Undefined THEN 1 ELSE v, ttlMs)
        item == Item(envelope, globalConfig.namespace)
        mgr == broadcastManager
        \* the fallback transport's setItem on the full localStorage throws as well
        thrown == IndexedDBDown \/ (driver.kind = "local" /\ mgr.transport = "storage")
    IN /\ nCalls < MaxCalls
       /\ ~NotInitialized
       /\ QuotaExceeded \/ IndexedDBDown
       /\ nCalls' = nCalls + 1
       /\ lastQuery' = NoCall
       /\ UNCHANGED <<scope, env, globalConfig, driver, broadcastManager, encryptionKey,
                      pendingKeys, now>>
       /\ SetStores(IF thrown THEN Stores ELSE broadcastStores(Stores, mgr, key, item))
       /\ timers' = IF thrown THEN timers ELSE broadcastTimers(timers, mgr, key)
       /\ lastMut' = [op |-> "write", key |-> key,
                      err |-> IF thrown THEN "backend-failure" ELSE "",
                      data |-> data, v |-> v, ttlMs |-> ttlMs, at |-> now,
                      envelope |-> envelope, persisted |-> FALSE,
                      sent |-> IF thrown THEN <<>> ELSE broadcastSent(mgr, key, item),
                      handled |-> <<>>]

\* remove when driver.remove rejects
removeFailing(key) ==
    /\ nCalls < MaxCalls
    /\ IndexedDBDown
    /\ nCalls' = nCalls + 1
    /\ lastQuery' = NoCall
    /\ lastMut' = [op |-> "remove", key |-> key, err |-> "backend-failure", at |-> now,
                   persisted |-> FALSE, sent |-> <<>>, handled |-> <<>>]
    /\ UNCHANGED <<scope, env, globalConfig, driver, broadcastManager, encryptionKey,
                   pendingKeys, memStore, localStorage, sessionStorage, idb, timers, now>>

\* clearAll when driver.clearAll rejects
clearAllFailing ==
    /\ nCalls < MaxCalls
    /\ IndexedDBDown
    /\ nCalls' = nCalls + 1
    /\ lastQuery' = NoCall
    /\ lastMut' = [op |-> "clearAll", err |-> "backend-failure", at |-> now,
                   persisted |-> FALSE, sent |-> <<>>, handled |-> <<>>]
    /\ UNCHANGED <<scope, env, globalConfig, driver, broadcastManager, encryptionKey,
                   pendingKeys, memStore, localStorage, sessionStorage, idb, timers, now>>

\* read when driver.read rejects (the await is outside read's try block)
readFailing(key, schema) ==
    /\ IndexedDBDown
    /\ lastQuery' = [op |-> "read", key |-> key, err |-> "backend-failure"]
    /\ UNCHANGED <<scope, env, globalConfig, driver, broadcastManager, encryptionKey,
                   pendingKeys, memStore, localStorage, sessionStorage, idb, timers,
                   now, nCalls, lastMut>>

\* keys when driver.keys rejects
keysFailing(prefix) ==
    /\ IndexedDBDown
    /\ lastQuery' = [op |-> "keys", prefix |-> prefix, err |-> "backend-failure"]
    /\ UNCHANGED <<scope, env, globalConfig, driver, broadcastManager, encryptionKey,
                   pendingKeys, memStore, localStorage, sessionStorage, idb, timers,
                   now, nCalls, lastMut>>

InitFaults == Fresh("faults")

NextFaults ==
    \/ \E config \in Configs(scope) : setup(config) /\ Quiet
    \/ BackendUp /\ \E key \in KeysOf(scope), args \in WriteArgs(scope) :
                        write(key, args.data, args.v, args.ttlMs) /\ Quiet
    \/ BackendUp /\ \E key \in KeysOf(scope) : remove(key) /\ Quiet
    \/ BackendUp /\ clearAll /\ Quiet
    \/ BackendUp /\ \E key \in KeysOf(scope), schema \in Schemas :
                        read(key, schema) /\ Quiet
    \/ BackendUp /\ \E prefix \in PrefixesOf(scope) : keys(prefix) /\ Quiet
    \/ TimerFired /\ Quiet
    \/ Tick /\ Quiet
    \/ \E key \in KeysOf(scope), args \in WriteArgs(scope) :
           writeFailing(key, args.data, args.v, args.ttlMs) /\ Quiet
    \/ \E key \in KeysOf(scope) : removeFailing(key) /\ Quiet
    \/ clearAllFailing /\ Quiet
    \/ \E key \in KeysOf(scope), schema \in Schemas : readFailing(key, schema) /\ Quiet
    \/ \E prefix \in PrefixesOf(scope) : keysFailing(prefix) /\ Quiet

SpecFaults == InitFaults /\ [][NextFaults]_vars

(***************************************************************************)
(* Subscribers.  Tab A is the context modelled so far; tab B is another    *)
(* tab of the same browser that has called setup with namespace 'a' and    *)
(* subscribed one callback, and makes no call of its own.                  *)
(*                                                                         *)
(* A message posted on a BroadcastChannel object is delivered to every     *)
(* other BroadcastChannel object of the same name, in other tabs and in    *)
(* the posting tab alike.  A change of a localStorage item fires a storage *)
(* event in every other tab, not in the tab that made it; setting an item  *)
(* to the value it has, or removing an absent item, fires none.  setup     *)
(* never destroys the manager it replaces.                                 *)
(***************************************************************************)
PeerNamespace == <<"a">>

PeerManager == BroadcastManager(PeerNamespace)

Notification(key, item) == [key |-> key, item |-> item]

\* subscribe(callback): the callback is added to the current manager's listeners
subscribe ==
    /\ broadcastManager # NoManager
    /\ ~listeners.current
    /\ listeners' = [listeners EXCEPT !.current = TRUE]
    /\ lastQuery' = NoCall
    /\ UNCHANGED <<scope, env, globalConfig, driver, broadcastManager, encryptionKey,
                   pendingKeys, memStore, localStorage, sessionStorage, idb, timers,
                   now, nCalls, lastMut, inboxA, inboxB>>

\* channel.onmessage of the managers of tab A other than the posting one
onmessageOwn(mgr, sent) ==
    LET hearing == {m \in listeners.old :
                       m.transport = "channel" /\ m.namespace = mgr.namespace}
    IN IF sent # <<>> /\ sent[1].via = "channel"
       THEN [i \in 1..Cardinality(hearing) |-> Notification(sent[1].key, sent[1].item)]
       ELSE <<>>

\* channel.onmessage of the manager of tab B
onmessagePeer(mgr, sent) ==
    IF sent # <<>> /\ sent[1].via = "channel" /\ PeerManager.transport = "channel"
       /\ PeerManager.namespace = mgr.namespace
    THEN <<Notification(sent[1].key, sent[1].item)>>
    ELSE <<>>

\* the storage event listener of the manager of tab B, for the change of
\* localStorage item k from store l0 to store l1 made in tab A
onstorage(l0, l1, k) ==
    LET prefix == PeerManager.namespace \o <<":">>
        changed == IF k \in DOMAIN l0
                   THEN k \notin DOMAIN l1 \/ l1[k] # l0[k]
                   ELSE k \in DOMAIN l1
    IN IF PeerManager.transport = "storage" /\ changed /\ startsWith(k, prefix)
       THEN <<Notification(slice(k, Len(prefix)),
                           IF k \in DOMAIN l1 THEN l1[k] ELSE NullItem(NoNs))>>
       ELSE <<>>

setupObserved(config) ==
    /\ setup(config)
    /\ listeners' = IF createDriver(config.driver, config.namespace).ok /\ config.broadcast
                    THEN [current |-> FALSE,
                          old |-> IF listeners.current
                                  THEN listeners.old \cup {broadcastManager}
                                  ELSE listeners.old]
                    ELSE listeners
    /\ inboxA' = <<>>
    /\ inboxB' = <<>>

writeObserved(key, data, v, ttlMs) ==
    /\ write(key, data, v, ttlMs)
    /\ inboxA' = onmessageOwn(broadcastManager, lastMut'.sent)
    /\ inboxB' = IF NotInitialized THEN <<>>
                 ELSE LET item == Item(lastMut'.envelope, globalConfig.namespace)
                          written == driverWrite(Stores, driver, getEnvelopeKey(key), item)
                      IN onmessagePeer(broadcastManager, lastMut'.sent)
                         \o onstorage(localStorage, written.local, getEnvelopeKey(key))
                         \o onstorage(written.local, localStorage',
                                      broadcastKey(broadcastManager, key))
    /\ UNCHANGED listeners

removeObserved(key) ==
    /\ remove(key)
    /\ inboxA' = onmessageOwn(broadcastManager, lastMut'.sent)
    /\ inboxB' = IF NotInitialized THEN <<>>
                 ELSE LET removed == driverRemove(Stores, driver, getEnvelopeKey(key))
                      IN onmessagePeer(broadcastManager, lastMut'.sent)
                         \o onstorage(localStorage, removed.local, getEnvelopeKey(key))
                         \o onstorage(removed.local, localStorage',
                                      broadcastKey(broadcastManager, key))
    /\ UNCHANGED listeners

\* storage.clear() fires a storage event whose key is null: the listener skips it
clearAllObserved ==
    /\ clearAll
    /\ inboxA' = <<>>
    /\ inboxB' = <<>>
    /\ UNCHANGED listeners

TimerFiredObserved ==
    /\ TimerFired
    /\ inboxB' = inboxB \o onstorage(localStorage, localStorage', Head(timers))
    /\ UNCHANGED <<listeners, inboxA>>

InitBroadcast == Fresh("broadcast")

\* the steps of SpecBroadcast follow one callback, not the set of a manager's listeners
OneCallback == UNCHANGED <<managerListeners, unsubscribers, invoked, inflight, journal,
                           members, provider>>

NextBroadcast ==
    \/ \E config \in Configs(scope) : setupObserved(config) /\ OneCallback
    \/ subscribe /\ OneCallback
    \/ \E key \in KeysOf(scope), args \in WriteArgs(scope) :
           writeObserved(key, args.data, args.v, args.ttlMs) /\ OneCallback
    \/ \E key \in KeysOf(scope) : removeObserved(key) /\ OneCallback
    \/ clearAllObserved /\ OneCallback
    \/ \E key \in KeysOf(scope), schema \in Schemas : read(key, schema) /\ Quiet
    \/ \E prefix \in PrefixesOf(scope) : keys(prefix) /\ Quiet
    \/ TimerFiredObserved /\ OneCallback
    \/ Tick /\ Quiet

SpecBroadcast == InitBroadcast /\ [][NextBroadcast]_vars

(***************************************************************************)
(* The listeners of one BroadcastManager.  subscribe adds the callback to  *)
(* a Set and returns a function that deletes that callback from the Set;   *)
(* a caller may call the returned function any number of times.  A message *)
(* from another context is passed to every member of the Set.              *)
(***************************************************************************)
Callbacks == {"f", "g"}
MaxSubscriptions == 3

storageVars == <<scope, env, globalConfig, driver, broadcastManager, encryptionKey,
                 pendingKeys, memStore, localStorage, sessionStorage, idb, timers, now,
                 nCalls, lastMut, lastQuery, listeners, inboxA, inboxB, inflight, journal,
                 members, provider>>

\* this.listeners.add(callback); return () => this.listeners.delete(callback)
managerSubscribe(callback) ==
    /\ Len(unsubscribers) < MaxSubscriptions
    /\ managerListeners' = managerListeners \cup {callback}
    /\ unsubscribers' = Append(unsubscribers, [callback |-> callback, called |-> FALSE])
    /\ invoked' = {}
    /\ UNCHANGED storageVars

\* () => this.listeners.delete(callback), the i-th function returned
unsubscribe(i) ==
    /\ managerListeners' = managerListeners \ {unsubscribers[i].callback}
    /\ unsubscribers' = [unsubscribers EXCEPT ![i].called = TRUE]
    /\ invoked' = {}
    /\ UNCHANGED storageVars

\* this.listeners.forEach(cb => cb(key, envelope))
onmessage ==
    /\ invoked' = managerListeners
    /\ UNCHANGED <<managerListeners, unsubscribers>>
    /\ UNCHANGED storageVars

InitSubscribers == Fresh("broadcast")

NextSubscribers ==
    \/ \E callback \in Callbacks : managerSubscribe(callback)
    \/ \E i \in 1..Len(unsubscribers) : unsubscribe(i)
    \/ onmessage

SpecSubscribers == InitSubscribers /\ [][NextSubscribers]_vars

(***************************************************************************)
(* Calls in flight.  write and remove are async functions: a caller that   *)
(* does not await them gets a promise at once, and the body runs on in     *)
(* pieces, each from one await to the next, interleaved with whatever else *)
(* the context runs - other calls in flight, setup, the resolution of a    *)
(* key derivation, timers.  A piece runs to its await without preemption.  *)
(* What a piece reads from the module state it reads when it runs.         *)
(*                                                                         *)
(*   write   if (!driver) throw; processWrite: now, stringify,             *)
(*             if (encryptionKey) await encrypt             pc "encrypt"   *)
(*             if (globalConfig.compression) await compress                *)
(*           await processWrite(..)                         pc "processed" *)
(*           getEnvelopeKey; await driver.write(..)         pc "persist"   *)
(*           broadcast                                      pc "done"      *)
(*   remove  if (!driver) throw; getEnvelopeKey;                           *)
(*           await driver.remove(..)                        pc "persist"   *)
(*           broadcast                                      pc "done"      *)
(*                                                                         *)
(* The memory and web-storage drivers act when they are called; their      *)
(* promise settles afterwards.                                             *)
(***************************************************************************)
\* what a call has used so far: nothing
NotUsed == [driver |-> NoDriver, storageKey |-> <<>>, manager |-> NoManager, sent |-> <<>>]

\* the module state a call found when it was issued, and how many calls came before it
Issued == [config |-> globalConfig, driver |-> driver, encryptionKey |-> encryptionKey,
           n |-> nCalls]

\* processWrite from `if (globalConfig?.compression)` to the return
compressAndSeal(call) ==
    LET gz == globalConfig.compression
        e == call.envelope
    IN [call EXCEPT !.pc = "processed",
                    !.envelope = [e EXCEPT !.data = IF gz THEN compress(e.data) ELSE e.data,
                                           !.v = IF gz THEN Max(e.v, 2) ELSE e.v]]

\* write(key, data) up to its first await
writeIssued(key, data) ==
    LET json == JSONstringify(data)
        aes == encryptionKey # NoKey
        started == [op |-> "write", key |-> key, data |-> data, pc |-> "encrypt",
                    envelope |-> [v |-> IF aes THEN 3 ELSE 1,
                                  data |-> IF aes THEN encrypt(json, encryptionKey) ELSE json,
                                  createdAt |-> now, updatedAt |-> now,
                                  expiresAt |-> Undefined],
                    issued |-> Issued, used |-> NotUsed]
    IN /\ ~NotInitialized
       /\ nCalls < MaxCalls
       /\ nCalls' = nCalls + 1
       /\ inflight' = Append(inflight, IF aes THEN started ELSE compressAndSeal(started))
       /\ UNCHANGED <<scope, env, globalConfig, driver, broadcastManager, encryptionKey,
                      pendingKeys, memStore, localStorage, sessionStorage, idb, timers, now,
                      lastMut, lastQuery, journal>>

\* the encrypt promise has resolved: processWrite goes on to the compression
encryptResolved(i) ==
    /\ inflight[i].pc = "encrypt"
    /\ inflight' = [inflight EXCEPT ![i] = compressAndSeal(@)]
    /\ UNCHANGED <<scope, env, globalConfig, driver, broadcastManager, encryptionKey,
                   pendingKeys, memStore, localStorage, sessionStorage, idb, timers, now,
                   nCalls, lastMut, lastQuery, journal>>

\* the processWrite promise has resolved: getEnvelopeKey(key), driver.write(..)
writePersists(i) ==
    LET call == inflight[i]
        envelopeKey == getEnvelopeKey(call.key)
        item == Item(call.envelope, globalConfig.namespace)
    IN /\ call.op = "write"
       /\ call.pc = "processed"
       /\ SetStores(driverWrite(Stores, driver, envelopeKey, item))
       /\ inflight' = [inflight EXCEPT ![i].pc = "persist",
                                       ![i].used.driver = driver,
                                       ![i].used.storageKey = envelopeKey]
       /\ journal' = Append(journal, i)
       /\ UNCHANGED <<scope, env, globalConfig, driver, broadcastManager, encryptionKey,
                      pendingKeys, timers, now, nCalls, lastMut, lastQuery>>

\* remove(key) up to its await: getEnvelopeKey(key), driver.remove(..)
removeIssued(key) ==
    LET envelopeKey == getEnvelopeKey(key) IN
    /\ ~NotInitialized
    /\ nCalls < MaxCalls
    /\ nCalls' = nCalls + 1
    /\ SetStores(driverRemove(Stores, driver, envelopeKey))
    /\ inflight' = Append(inflight,
                          [op |-> "remove", key |-> key, data |-> JsNull, pc |-> "persist",
                           envelope |-> NoEnvelope, issued |-> Issued,
                           used |-> [NotUsed EXCEPT !.driver = driver,
                                                    !.storageKey = envelopeKey]])
    /\ journal' = Append(journal, Len(inflight) + 1)
    /\ UNCHANGED <<scope, env, globalConfig, driver, broadcastManager, encryptionKey,
                   pendingKeys, timers, now, lastMut, lastQuery>>

\* the driver's promise has resolved: broadcastManager?.broadcast(key, envelope | null).
\* The drivers' promises resolve in the order of their operations.
notifies(i) ==
    LET call == inflight[i]
        mgr == broadcastManager
        item == IF call.op = "write" THEN Item(call.envelope, globalConfig.namespace)
                ELSE NullItem(globalConfig.namespace)
    IN /\ call.pc = "persist"
       /\ \A n \in 1..Len(journal) :
              inflight[journal[n]].pc = "persist" => \E m \in 1..n : journal[m] = i
       /\ SetStores(broadcastStores(Stores, mgr, call.key, item))
       /\ timers' = broadcastTimers(timers, mgr, call.key)
       /\ inflight' = [inflight EXCEPT ![i].pc = "done",
                                       ![i].used.manager = mgr,
                                       ![i].used.sent = broadcastSent(mgr, call.key, item)]
       /\ UNCHANGED <<scope, env, globalConfig, driver, broadcastManager, encryptionKey,
                      pendingKeys, now, nCalls, lastMut, lastQuery, journal>>

\* the calls in flight do not touch the subscriber variables
NoSubscriber == UNCHANGED <<listeners, inboxA, inboxB, managerListeners, unsubscribers,
                            invoked, members, provider>>

InitInflight == Fresh("inflight")

NextInflight ==
    \/ \E config \in Configs(scope) : setup(config) /\ Quiet
    \/ \E key \in pendingKeys : KeyResolved(key) /\ Quiet
    \/ \E key \in KeysOf(scope), args \in WriteArgs(scope) :
           writeIssued(key, args.data) /\ NoSubscriber
    \/ \E i \in 1..Len(inflight) : encryptResolved(i) /\ NoSubscriber
    \/ \E i \in 1..Len(inflight) : writePersists(i) /\ NoSubscriber
    \/ \E key \in KeysOf(scope) : removeIssued(key) /\ NoSubscriber
    \/ \E i \in 1..Len(inflight) : notifies(i) /\ NoSubscriber
    \/ TimerFired /\ Quiet

SpecInflight == InitInflight /\ [][NextInflight]_vars

(***************************************************************************)
(* Collections (collections.ts): a collection with a name stores each item *)
(* under the key name + ':' + id, through write, read, remove and keys of  *)
(* core.ts.  The caller awaits every call.  The application calls setup    *)
(* once; the ids are those crypto.randomUUID() hands out, never one that   *)
(* is in use.                                                              *)
(***************************************************************************)
getKey(name, id) == name \o <<":">> \o <<id>>

\* createCollection(name, config): if (config) setup(config)
createCollection(name, config) ==
    /\ NotInitialized
    /\ setup(config)
    /\ UNCHANGED members

\* add(item): const id = crypto.randomUUID(); await write(getKey(id), item)
add(name, item) ==
    \E id \in Ids :
        /\ \A n \in CollectionNames : \A m \in members[n] : m.id # id
        /\ ~NotInitialized
        /\ write(getKey(name, id), item, Undefined, Undefined)
        /\ members' = [members EXCEPT ![name] = @ \cup {[id |-> id, item |-> item]}]

\* remove(id): await remove(getKey(id))
collectionRemove(name, id) ==
    /\ ~NotInitialized
    /\ remove(getKey(name, id))
    /\ members' = [members EXCEPT ![name] = {m \in @ : m.id # id}]

\* the items list() collects: read(key) of every key, those that are not null
RECURSIVE listItems(_)
listItems(allKeys) ==
    IF allKeys = <<>> THEN <<>>
    ELSE LET item == readResult(Head(allKeys), "none").val
         IN (IF item # JsNull THEN <<item>> ELSE <<>>) \o listItems(Tail(allKeys))

\* list(): keys(name + ':'), then read(key) for each key
list(name) ==
    /\ ~NotInitialized
    /\ lastQuery' = [op |-> "list", name |-> name, err |-> "",
                     res |-> listItems(keysResult(name \o <<":">>))]
    /\ UNCHANGED <<scope, env, globalConfig, driver, broadcastManager, encryptionKey,
                   pendingKeys, memStore, localStorage, sessionStorage, idb, timers,
                   now, nCalls, lastMut, members>>

\* count(): (await keys(name + ':')).length
count(name) ==
    /\ ~NotInitialized
    /\ lastQuery' = [op |-> "count", name |-> name, err |-> "",
                     res |-> Len(keysResult(name \o <<":">>))]
    /\ UNCHANGED <<scope, env, globalConfig, driver, broadcastManager, encryptionKey,
                   pendingKeys, memStore, localStorage, sessionStorage, idb, timers,
                   now, nCalls, lastMut, members>>

\* the stores after remove(key) of every key of the sequence
RECURSIVE removeAll(_, _)
removeAll(S, allKeys) ==
    IF allKeys = <<>> THEN S
    ELSE removeAll(broadcastStores(driverRemove(S, driver, getEnvelopeKey(Head(allKeys))),
                                   broadcastManager, Head(allKeys),
                                   NullItem(globalConfig.namespace)),
                   Tail(allKeys))

RECURSIVE removeAllTimers(_, _)
removeAllTimers(tm, allKeys) ==
    IF allKeys = <<>> THEN tm
    ELSE removeAllTimers(broadcastTimers(tm, broadcastManager, Head(allKeys)), Tail(allKeys))

\* clear(): keys(name + ':'), then remove(key) for each key
clear(name) ==
    LET allKeys == keysResult(name \o <<":">>) IN
    /\ ~NotInitialized
    /\ nCalls < MaxCalls
    /\ nCalls' = nCalls + 1
    /\ SetStores(removeAll(Stores, allKeys))
    /\ timers' = removeAllTimers(timers, allKeys)
    /\ lastMut' = [op |-> "clear", name |-> name, err |-> "", sent |-> <<>>]
    /\ lastQuery' = NoCall
    /\ members' = [members EXCEPT ![name] = {}]
    /\ UNCHANGED <<scope, env, globalConfig, driver, broadcastManager, encryptionKey,
                   pendingKeys, now>>

\* the collection steps involve no subscriber and no call in flight
Awaited == UNCHANGED <<listeners, inboxA, inboxB, managerListeners, unsubscribers,
                       invoked, inflight, journal, provider>>

InitCollections == Fresh("collections")

NextCollections ==
    \/ \E name \in CollectionNames, config \in Configs(scope) :
           createCollection(name, config) /\ Awaited
    \/ \E name \in CollectionNames, args \in WriteArgs(scope) :
           add(name, args.data) /\ Awaited
    \/ \E name \in CollectionNames, id \in Ids : collectionRemove(name, id) /\ Awaited
    \/ \E name \in CollectionNames : list(name) /\ Awaited
    \/ \E name \in CollectionNames : count(name) /\ Awaited
    \/ \E name \in CollectionNames : clear(name) /\ Awaited

SpecCollections == InitCollections /\ [][NextCollections]_vars

(***************************************************************************)
(* Teardown of one BroadcastManager.  destroy closes the channel if there  *)
(* is one and empties the Set of listeners.  The listener the constructor  *)
(* added to window for the fallback transport stays, so storage events     *)
(* still reach the manager after destroy; a closed channel delivers        *)
(* nothing.                                                                *)
(***************************************************************************)
subscriberVars == <<scope, env, globalConfig, driver, encryptionKey, pendingKeys, memStore,
                    localStorage, sessionStorage, idb, timers, now, listeners, inboxA,
                    inboxB, inflight, journal, members, provider>>

\* new BroadcastManager(namespace)
construct(namespace) ==
    /\ broadcastManager = NoManager
    /\ broadcastManager' = BroadcastManager(namespace)
    /\ UNCHANGED <<managerListeners, unsubscribers, invoked, nCalls, lastMut, lastQuery>>
    /\ UNCHANGED subscriberVars

\* destroy without this.listeners.clear()
destroyKeepingListeners ==
    /\ nCalls < MaxCalls
    /\ broadcastManager # NoManager
    /\ broadcastManager' = IF broadcastManager.transport = "channel"
                           THEN [broadcastManager EXCEPT !.transport = "closed"]
                           ELSE broadcastManager
    /\ managerListeners' = managerListeners
    /\ invoked' = {}
    /\ nCalls' = nCalls + 1
    /\ lastMut' = [op |-> "destroy", err |-> "", n |-> nCalls + 1,
                   subs |-> Len(unsubscribers)]
    /\ lastQuery' = NoCall
    /\ UNCHANGED unsubscribers
    /\ UNCHANGED subscriberVars

\* if (this.channel) { this.channel.close(); this.channel = null }
\* this.listeners.clear()
destroy ==
    /\ nCalls < MaxCalls
    /\ broadcastManager # NoManager
    /\ broadcastManager' = IF broadcastManager.transport = "channel"
                           THEN [broadcastManager EXCEPT !.transport = "closed"]
                           ELSE broadcastManager
    /\ managerListeners' = {}
    /\ invoked' = {}
    /\ nCalls' = nCalls + 1
    /\ lastMut' = [op |-> "destroy", err |-> "", n |-> nCalls + 1,
                   subs |-> Len(unsubscribers)]
    /\ lastQuery' = NoCall
    /\ UNCHANGED unsubscribers
    /\ UNCHANGED subscriberVars

\* the storage listener of the fallback transport, for a key of the namespace:
\* this.listeners.forEach(cb => cb(key, envelope))
storageListener ==
    /\ broadcastManager.transport = "storage"
    /\ invoked' = managerListeners
    /\ lastQuery' = [op |-> "storage", err |-> ""]
    /\ UNCHANGED <<broadcastManager, managerListeners, unsubscribers, nCalls, lastMut>>
    /\ UNCHANGED subscriberVars

InitDestroy == Fresh("broadcast")

NextDestroy ==
    \/ \E config \in Configs(scope) : construct(config.namespace)
    \/ broadcastManager # NoManager /\ \E callback \in Callbacks : managerSubscribe(callback)
    \/ \E i \in 1..Len(unsubscribers) : unsubscribe(i)
    \/ broadcastManager.transport = "channel" /\ onmessage
    \/ storageListener
    \/ destroy

SpecDestroy == InitDestroy /\ [][NextDestroy]_vars

(***************************************************************************)
(* StorageProvider (hooks.ts).  The body of the component calls setup with *)
(* its config prop on every render; its effect, with [config] as the       *)
(* dependencies, calls setup once more after the first render and after a  *)
(* render with another config.  Calls of the children come in between.     *)
(***************************************************************************)
Rendering == UNCHANGED <<listeners, inboxA, inboxB, managerListeners, unsubscribers, invoked,
                         inflight, journal, members>>

\* a render of StorageProvider: setup(config) in the body; the effect is
\* scheduled if config is not the config of the previous render
StorageProvider(config) ==
    /\ setup(config)
    /\ provider' = IF lastMut'.err = ""
                   THEN [config |-> config,
                         effect |-> provider.effect \/ provider.config # config]
                   ELSE provider
    /\ Rendering

\* React.useEffect(() => { setup(config) }, [config])
useEffect ==
    /\ provider.effect
    /\ setup(provider.config)
    /\ provider' = [provider EXCEPT !.effect = FALSE]
    /\ Rendering

InitProvider == Fresh("broadcast")

NextProvider ==
    \/ \E config \in Configs(scope) : StorageProvider(config)
    \/ useEffect
    \/ ~NotInitialized /\ \E key \in KeysOf(scope), args \in WriteArgs(scope) :
                              write(key, args.data, args.v, args.ttlMs) /\ Quiet
    \/ ~NotInitialized /\ \E key \in KeysOf(scope), schema \in Schemas :
                              read(key, schema) /\ Quiet
    \/ TimerFired /\ Quiet

SpecProvider == InitProvider /\ [][NextProvider]_vars

(***************************************************************************)
(* Properties                                                              *)
(***************************************************************************)
StoresNext == [mem |-> memStore', local |-> localStorage', session |-> sessionStorage',
               idb |-> idb']

AllStoresEmpty ==
    /\ memStore = EmptyStore
    /\ localStorage = EmptyStore
    /\ sessionStorage = EmptyStore
    /\ \A d \in DbNames : idb[d] = EmptyStore

Range(seq) == {seq[i] : i \in 1..Len(seq)}

\* C1: while no setup() has succeeded (driver is null), write, remove, clearAll,
\* read and keys fail with 'Storage not initialized'; the failed call sends no
\* notification and no store holds a record.
C1_NotInitializedFailsFast ==
    driver = NoDriver =>
        /\ lastMut.op \in {"write", "remove", "clearAll"} =>
               lastMut.err = "not-initialized" /\ lastMut.sent = <<>>
        /\ lastQuery.op \in {"read", "keys"} => lastQuery.err = "not-initialized"
        /\ AllStoresEmpty
        /\ timers = <<>>

\* a write fails as not initialized after a setup() that threw
C1_Witness ==
    /\ driver = NoDriver
    /\ globalConfig # NoConfig
    /\ lastMut.op = "write"
    /\ lastMut.err = "not-initialized"

\* C2: a completed write(k, v) without options, followed by read(k) with no
\* other call in between, returns v: for every setting of encryption and
\* compression.
C2_RoundTrip ==
    (/\ lastMut.op = "write" /\ lastMut.err = ""
     /\ lastMut.v = Undefined /\ lastMut.ttlMs = Undefined
     /\ lastQuery.op = "read" /\ lastQuery.key = lastMut.key
     /\ lastQuery.schema = "none")
    => lastQuery.res.val = lastMut.data

isEncrypted(data) == \E i \in 1..Len(data.wraps) : data.wraps[i][1] = "aes-gcm"

\* C3: with encryption configured, the envelope a completed write persisted
\* holds an encrypted payload.
C3_NoPlaintextUnderEncryption ==
    (lastMut.op = "write" /\ lastMut.err = "" /\ globalConfig.encryption # NoEnc)
    => isEncrypted(lastMut.envelope.data)

\* C4: after write(k, v, {ttlMs: T}) at time t with T >= 1, read(k) at t + T - 1
\* returns v and read(k) at t + T + 1 returns null.
C4_TtlExpiry ==
    (/\ lastMut.op = "write" /\ lastMut.err = "" /\ lastMut.ttlMs >= 1
     /\ lastQuery.op = "read" /\ lastQuery.key = lastMut.key
     /\ lastQuery.schema = "none")
    => /\ lastQuery.at = lastMut.at + lastMut.ttlMs - 1 => lastQuery.res.val = lastMut.data
       /\ lastQuery.at = lastMut.at + lastMut.ttlMs + 1 => lastQuery.res.val = JsNull

\* the namespace under which the record at a storage key of the active driver
\* was stored differs from the configured one (both being configured)
Foreign(storageKey) ==
    LET store == storeOf(Stores, driver) IN
    /\ storageKey \in DOMAIN store
    /\ store[storageKey].by # NoNs
    /\ globalConfig.namespace # NoNs
    /\ store[storageKey].by # globalConfig.namespace

\* C5: read(k) never returns a value stored under another namespace and keys()
\* never lists a key stored under another namespace.
C5_NamespaceIsolation ==
    /\ (lastQuery.op = "read" /\ lastQuery.err = "" /\ lastQuery.res.outcome = "found")
       => ~Foreign(getEnvelopeKey(lastQuery.key))
    /\ (lastQuery.op = "keys" /\ lastQuery.err = "")
       => \A k \in Range(lastQuery.res) : ~Foreign(getEnvelopeKey(k))

\* C6: with namespace N configured, a write or remove of key k changes no
\* record of the active driver other than the one at N + ':' + k, and keys(p)
\* returns, each once, exactly the keys k with a record at N + ':' + k that
\* start with p.
C6_OnlyOwnRecordTouched ==
    [][(/\ nCalls' = nCalls + 1
        /\ lastMut'.op \in {"write", "remove"}
        /\ lastMut'.err = ""
        /\ globalConfig.namespace # NoNs)
       => LET before == storeOf(Stores, driver)
              after == storeOf(StoresNext, driver)
              own == getEnvelopeKey(lastMut'.key)
          IN \A k \in (DOMAIN before \cup DOMAIN after) \ {own} :
                 k \in DOMAIN before /\ k \in DOMAIN after /\ after[k] = before[k]]_vars

C6_KeysExact ==
    (lastQuery.op = "keys" /\ lastQuery.err = "" /\ globalConfig.namespace # NoNs)
    => LET ns == globalConfig.namespace \o <<":">>
           store == storeOf(Stores, driver)
           listed == lastQuery.res
       IN /\ \A i, j \in 1..Len(listed) : listed[i] = listed[j] => i = j
          /\ Range(listed) =
                 {slice(k, Len(ns)) : k \in {f \in DOMAIN store :
                      startsWith(f, ns) /\ startsWith(slice(f, Len(ns)), lastQuery.prefix)}}

\* C7: after a completed remove(k), and until the next call, read(k) returns
\* null and keys() does not list k.
C7_RemovedStaysRemoved ==
    (lastMut.op = "remove" /\ lastMut.err = "")
    => /\ (lastQuery.op = "read" /\ lastQuery.key = lastMut.key)
          => lastQuery.res.val = JsNull
       /\ (lastQuery.op = "keys" /\ lastQuery.prefix = <<>>)
          => lastMut.key \notin Range(lastQuery.res)

\* C8: after a completed clearAll(), and until the next call, keys() returns the
\* empty sequence and read(k) returns null for every k.
C8_ClearedIsEmpty ==
    (lastMut.op = "clearAll" /\ lastMut.err = "")
    => /\ keysResult(<<>>) = <<>>
       /\ \A k \in Keys : readResult(k, "none").val = JsNull
       /\ lastQuery.op = "keys" => lastQuery.res = <<>>
       /\ lastQuery.op = "read" => lastQuery.res.val = JsNull

\* keys() answered with the empty sequence after a clearAll() that followed a write
C8_Witness ==
    /\ lastMut.op = "clearAll"
    /\ lastMut.err = ""
    /\ lastQuery.op = "keys"
    /\ lastQuery.res = <<>>
    /\ nCalls >= 3

\* C9: clearAll() leaves in place every record of the active driver that was
\* stored under a namespace other than the configured one.
C9_ClearAllNamespaceScoped ==
    [][(nCalls' = nCalls + 1 /\ lastMut'.op = "clearAll" /\ lastMut'.err = "")
       => LET before == storeOf(Stores, driver)
              after == storeOf(StoresNext, driver)
          IN \A k \in DOMAIN before :
                 (before[k].by # NoNs /\ globalConfig.namespace # NoNs
                    /\ before[k].by # globalConfig.namespace)
                 => k \in DOMAIN after /\ after[k] = before[k]]_vars

\* C10: a read, whatever its outcome, leaves every store as it was; a record it
\* found expired is still there and still listed by keys().
C10_ReadLeavesStoresUnchanged ==
    [][lastQuery'.op = "read"
       => /\ UNCHANGED <<memStore, localStorage, sessionStorage, idb>>
          /\ (lastQuery'.err = "" /\ lastQuery'.res.outcome = "expired")
             => /\ getEnvelopeKey(lastQuery'.key) \in DOMAIN storeOf(StoresNext, driver)
                /\ lastQuery'.key \in Range(keysResult(<<>>)')]_vars

\* a read has found its record expired
C10_Witness ==
    /\ lastQuery.op = "read"
    /\ lastQuery.err = ""
    /\ lastQuery.res.outcome = "expired"

\* C11: a read of a record whose envelope has v >= 3, made while no encryption
\* key is set, returns null.
C11_ReadFailsClosed ==
    LET got == driverRead(Stores, driver, getEnvelopeKey(lastQuery.key)) IN
    (lastQuery.op = "read" /\ lastQuery.err = "" /\ encryptionKey = NoKey
       /\ got.found /\ got.e.v >= 3)
    => lastQuery.res.val = JsNull

\* a read has met a record holding ciphertext while no key is set
C11_Witness ==
    LET got == driverRead(Stores, driver, getEnvelopeKey(lastQuery.key)) IN
    /\ lastQuery.op = "read"
    /\ lastQuery.err = ""
    /\ encryptionKey = NoKey
    /\ got.found
    /\ got.e.v >= 3
    /\ isEncrypted(got.e.data)
    /\ lastQuery.res.outcome = "no-key"

\* C12: no read whose schema rejects the value, or whose decompress, decrypt or
\* parse step throws, resolves to null as a read of an absent record does.
C12_ReadErrorsSurface ==
    (lastQuery.op = "read" /\ lastQuery.err = "")
    => ~(/\ lastQuery.res.outcome \in {"validation-failure", "transform-failure"}
         /\ lastQuery.res.val = JsNull)

\* C13: a write whose record the driver did not persist sends no notification.
C13_NoNotificationOfFailedWrite ==
    (lastMut.op = "write" /\ ~lastMut.persisted) => lastMut.sent = <<>>

\* C14: a write, remove or clearAll whose driver operation failed is rejected
\* to the caller and its error is passed to the errorHandler.
C14_FailureRejectsAndIsHandled ==
    (lastMut.op \in {"write", "remove", "clearAll"} /\ ~lastMut.persisted
       /\ lastMut.err # "not-initialized")
    => lastMut.err # "" /\ lastMut.handled # <<>>

\* C15: the active key is none when the current configuration has no
\* encryption, and otherwise none or the key derived for the current
\* configuration; every write encrypts with that key only.
C15_NoKeyCarriedOver ==
    /\ globalConfig.encryption = NoEnc => encryptionKey = NoKey
    /\ encryptionKey \in {NoKey} \cup makeAesKey(globalConfig.encryption)
    /\ (lastMut.op = "write" /\ lastMut.err = "" /\ globalConfig.encryption = NoEnc)
       => ~isEncrypted(lastMut.envelope.data)

\* C16: while the current configuration has broadcast false, no write or remove
\* sends a notification.
C16_BroadcastFlagReplaced ==
    (lastMut.op \in {"write", "remove"} /\ ~globalConfig.broadcast)
    => lastMut.sent = <<>>

\* C17: while the configuration set up is driver 'auto', the driver in use is
\* not IndexedDB where indexedDB is unavailable, and no call fails because the
\* backend is unavailable.
C17_AutoNeverFails ==
    globalConfig.driver = "auto"
    => /\ ~env.idb => driver.kind # "idb"
       /\ lastMut.op \in {"write", "remove", "clearAll"} => lastMut.err # "backend-failure"
       /\ lastQuery.op \in {"read", "keys"} => lastQuery.err # "backend-failure"

C19_BroadcastIsolation ==
    (lastMut.op \in {"write", "remove"} /\ lastMut.err = "")
    => /\ inboxA = <<>>
       /\ (lastMut.sent # <<>> /\ lastMut.sent[1].via = "channel"
             /\ broadcastManager.namespace = PeerManager.namespace)
          => \E i \in 1..Len(inboxB) : inboxB[i].key = lastMut.key

\* C20: of a completed write(k, v) the callback of tab B has received at most
\* one notification for k, and it carries the envelope written; it has
\* received (k, null) only if the latest call is remove(k).
C20_AtMostOnceAndNullIsRemoval ==
    LET got == {i \in 1..Len(inboxB) : inboxB[i].key = lastMut.key} IN
    /\ (lastMut.op = "write" /\ lastMut.err = "")
       => /\ Cardinality(got) <= 1
          /\ \A i \in got : /\ inboxB[i].item.json = "envelope"
                             /\ inboxB[i].item.e = lastMut.envelope
    /\ \A i \in 1..Len(inboxB) :
           inboxB[i].item.json = "null"
           => lastMut.op = "remove" /\ lastMut.key = inboxB[i].key

\* C21: every subscription whose unsubscribe function has not been called
\* still has its callback among the manager's listeners, whatever other
\* unsubscribe functions were called, and a message is passed to it; a callback
\* is among the listeners only if one of its subscriptions has not been
\* unsubscribed.
C21_SubscribersIndependent ==
    /\ \A j \in 1..Len(unsubscribers) :
           ~unsubscribers[j].called => unsubscribers[j].callback \in managerListeners
    /\ \A callback \in managerListeners :
           \E j \in 1..Len(unsubscribers) :
               unsubscribers[j].callback = callback /\ ~unsubscribers[j].called

\* no setup() was called since the i-th call in flight was issued
NoSetupSince(i) == nCalls - inflight[i].issued.n = Len(inflight) - i + 1

\* C22: when two writes of the same key were issued one after the other, with
\* no setup since, and both have completed, and the driver operation that took
\* effect last is one of theirs, then the record stored at the key is the
\* envelope of the one of the two whose driver write took effect last.
C22_LastWriteWins ==
    \A i, j \in 1..Len(inflight) :
        (/\ i < j
         /\ inflight[i].op = "write" /\ inflight[j].op = "write"
         /\ inflight[i].key = inflight[j].key
         /\ inflight[i].pc = "done" /\ inflight[j].pc = "done"
         /\ NoSetupSince(i)
         /\ journal[Len(journal)] \in {i, j})
        => LET last == inflight[journal[Len(journal)]]
               found == driverRead(Stores, driver, getEnvelopeKey(last.key))
           IN found.found /\ found.e = last.envelope

isCompressed(data) == \E i \in 1..Len(data.wraps) : data.wraps[i] = <<"gzip">>

\* C23: a write whose driver operation has taken effect was persisted by the
\* driver, under the namespace, with the compression setting and with the
\* encryption key that were active when the write was issued.
C23_StableConfiguration ==
    \A i \in 1..Len(inflight) :
        LET call == inflight[i]
            thenNs == call.issued.config.namespace
        IN (call.op = "write" /\ call.pc \in {"persist", "done"})
           => /\ call.used.driver = call.issued.driver
              /\ call.used.storageKey = thenNs \o <<":">> \o call.key
              /\ isCompressed(call.envelope.data) = call.issued.config.compression
              /\ isEncrypted(call.envelope.data) = (call.issued.encryptionKey # NoKey)

\* C24: a write that overwrites the record of its key stores an envelope with
\* the createdAt of the record it replaces, and an updatedAt not before that
\* record's.
C24_CreatedAtFixed ==
    [][(nCalls' = nCalls + 1 /\ lastMut'.op = "write" /\ lastMut'.err = "")
       => LET before == driverRead(Stores, driver, getEnvelopeKey(lastMut'.key))
          IN before.found
             => /\ lastMut'.envelope.createdAt = before.e.createdAt
                /\ lastMut'.envelope.updatedAt >= before.e.updatedAt]_vars

\* the transforms an envelope's payload went through when it was written
Applied(e) == [gz |-> isCompressed(e.data), aes |-> isEncrypted(e.data)]

\* the transforms processRead reverses for an envelope
Reversed(e) == [gz |-> globalConfig.compression /\ e.v >= 2,
                aes |-> encryptionKey # NoKey /\ e.v >= 3]

\* C25: a write that replaces a record of the same version applied the same
\* transforms as the write of that record, and a read of a record that has not
\* expired reverses exactly the transforms its write applied.
C25_VersionTellsTransforms ==
    [][/\ (nCalls' = nCalls + 1 /\ lastMut'.op = "write" /\ lastMut'.err = "")
          => LET before == driverRead(Stores, driver, getEnvelopeKey(lastMut'.key))
             IN (before.found /\ before.e.v = lastMut'.envelope.v)
                => Applied(before.e) = Applied(lastMut'.envelope)
       /\ (lastQuery'.op = "read" /\ lastQuery'.err = "")
          => LET got == driverRead(Stores, driver, getEnvelopeKey(lastQuery'.key))
             IN (got.found /\ lastQuery'.res.outcome # "expired")
                => Reversed(got.e) = Applied(got.e)]_vars

\* C26: with encryption configured by a passphrase and no salt, all keys
\* derived from the same passphrase are the same key, and a read made with a
\* key in place, of a record encrypted under that passphrase, returns its value.
C26_DefaultSaltDeterministic ==
    LET derived == pendingKeys \cup ({encryptionKey} \ {NoKey})
        got == driverRead(Stores, driver, getEnvelopeKey(lastQuery.key))
    IN /\ \A k1, k2 \in derived : k1[1] = k2[1] => k1 = k2
       /\ (/\ lastQuery.op = "read" /\ lastQuery.err = "" /\ lastQuery.schema = "none"
           /\ encryptionKey # NoKey
           /\ got.found /\ isEncrypted(got.e.data))
          => lastQuery.res.outcome = "found"

\* C27: a read by the local or session driver of a key whose stored text is
\* not JSON resolves, to null as for an absent record, and leaves that text in
\* place.
C27_CorruptReadsAsAbsent ==
    [][LET store == storeOf(Stores, driver)
           envelopeKey == getEnvelopeKey(lastQuery'.key)
       IN (/\ lastQuery'.op = "read"
           /\ driver.kind \in {"local", "session"}
           /\ envelopeKey \in DOMAIN store
           /\ store[envelopeKey].json = "corrupt")
          => /\ lastQuery'.err = ""
             /\ lastQuery'.res = Returned(JsNull, "absent")
             /\ storeOf(StoresNext, driver) = store]_vars

\* a read has answered null for a key under which a text that is not JSON is stored
C27_Witness ==
    /\ lastQuery.op = "read"
    /\ lastQuery.err = ""
    /\ lastQuery.res.outcome = "absent"
    /\ driver.kind \in {"local", "session"}
    /\ getEnvelopeKey(lastQuery.key) \in DOMAIN storeOf(Stores, driver)
    /\ storeOf(Stores, driver)[getEnvelopeKey(lastQuery.key)].json = "corrupt"

\* C28: list() of a collection returns the items added to it and not removed
\* since, count() returns their number, and after clear() of a collection its
\* list is empty while the items of the other collections are still stored.
C28_CollectionsSeparate ==
    /\ lastQuery.op = "list"
       => /\ Len(lastQuery.res) = Cardinality(members[lastQuery.name])
          /\ Range(lastQuery.res) = {m.item : m \in members[lastQuery.name]}
    /\ lastQuery.op = "count" => lastQuery.res = Cardinality(members[lastQuery.name])
    /\ lastMut.op = "clear"
       => /\ listItems(keysResult(lastMut.name \o <<":">>)) = <<>>
          /\ \A name \in CollectionNames : \A m \in members[name] :
                 readResult(getKey(name, m.id), "none").val = m.item

\* the position in the journal of the i-th call in flight
Position(i) == CHOOSE n \in 1..Len(journal) : journal[n] = i

\* C29: when a write or remove that went to the local driver posts its
\* notification, its driver operation has taken effect, and a subscriber of
\* the notified namespace that then reads the key from localStorage finds the
\* result of that operation or of one that took effect after it: the envelope
\* of that write, or no record for a remove.
C29_PersistBeforeNotify ==
    [][\A i \in 1..Len(inflight) :
           (/\ inflight[i].pc = "persist"
            /\ inflight'[i].pc = "done"
            /\ inflight'[i].used.sent # <<>>
            /\ inflight'[i].used.driver.kind = "local")
           => LET call == inflight'[i]
                  readKey == broadcastKey(call.used.manager, call.key)
                  seen == driverRead(StoresNext, call.used.driver, readKey)
                  since == {inflight'[journal[n]] : n \in Position(i)..Len(journal)}
              IN /\ \E n \in 1..Len(journal) : journal[n] = i
                 /\ \E c \in since :
                        /\ c.used.driver = call.used.driver
                        /\ c.used.storageKey = readKey
                        /\ IF c.op = "write" THEN seen.found /\ seen.e = c.envelope
                           ELSE ~seen.found]_vars

\* the key derivation of the current configuration has failed: encryption is
\* configured, no derivation is pending and no key is set
DerivationFailed ==
    /\ globalConfig.encryption # NoEnc
    /\ pendingKeys = {}
    /\ encryptionKey = NoKey

\* C30: a failed key derivation is passed to the error handler, and while the
\* derivation of the current configuration has failed every write and every
\* read is rejected and no write persists a record.
C30_FailedDerivationIsFatal ==
    [][/\ lastMut'.op = "makeAesKey" => lastMut'.handled # <<>>
       /\ (DerivationFailed /\ nCalls' = nCalls + 1 /\ lastMut'.op = "write")
          => lastMut'.err # "" /\ ~lastMut'.persisted
       /\ (DerivationFailed /\ lastQuery'.op = "read") => lastQuery'.err # ""]_vars

\* C31: the envelope a completed write persisted has version >= 1, version
\* >= 2 if its payload was compressed and version >= 3 if its payload was
\* encrypted, whatever options.v was.
C31_VersionFloors ==
    (lastMut.op = "write" /\ lastMut.err = "")
    => /\ lastMut.envelope.v >= 1
       /\ isCompressed(lastMut.envelope.data) => lastMut.envelope.v >= 2
       /\ isEncrypted(lastMut.envelope.data) => lastMut.envelope.v >= 3

\* C32: with the IndexedDB driver on a database that cannot be opened, a read
\* resolves to not-found, and a write, remove or clearAll is rejected.
C32_IndexedDBReadDowngraded ==
    IndexedDBDown
    => /\ lastQuery.op = "read"
          => lastQuery.err = "" /\ lastQuery.res.outcome = "absent"
       /\ lastMut.op \in {"write", "remove", "clearAll"}
          => lastMut.err = "backend-failure"

\* C33: after destroy() no callback subscribed before it is invoked again, and
\* a destroy() of a manager that was destroyed and not subscribed to since
\* changes neither the manager nor its listeners, and raises no error.
C33_DestroyIdempotent ==
    [][/\ (lastMut'.op = "destroy" /\ Len(unsubscribers') = lastMut'.subs)
          => invoked' = {} /\ lastMut'.err = ""
       /\ (/\ lastMut.op = "destroy"
           /\ Len(unsubscribers) = lastMut.subs
           /\ lastMut'.op = "destroy"
           /\ lastMut'.n = lastMut.n + 1)
          => UNCHANGED <<broadcastManager, managerListeners, unsubscribers>>]_vars

\* a storage event has reached a twice destroyed manager that had subscribers
C33_Witness ==
    /\ lastMut.op = "destroy"
    /\ lastMut.n >= 2
    /\ lastMut.subs > 0
    /\ Len(unsubscribers) = lastMut.subs
    /\ lastQuery.op = "storage"

\* C34: right after a successful setup({driver: 'memory'}) the store of the
\* memory driver is empty: keys() returns the empty list and read(k) returns
\* null for every k, whatever was written before.
C34_MemorySetupEmpty ==
    (lastMut.op = "setup" /\ lastMut.err = "" /\ globalConfig.driver = "memory")
    => /\ memStore = EmptyStore
       /\ (lastQuery.op = "keys" /\ lastQuery.err = "") => lastQuery.res = <<>>
       /\ (lastQuery.op = "read" /\ lastQuery.err = "") => lastQuery.res.outcome = "absent"

\* read(k) right after setup({driver: 'memory'}) that followed other calls
C34_Witness ==
    /\ lastMut.op = "setup"
    /\ lastMut.err = ""
    /\ globalConfig.driver = "memory"
    /\ nCalls >= 3
    /\ lastQuery.op = "read"
    /\ lastQuery.err = ""

\* C35: with the fallback transport and the local driver under a namespace,
\* once write(k, v) has completed and the deferred cleanup of its
\* notification has run, the record of k is still stored: read(k) returns v
\* and keys() lists k.
C35_NotificationKeepsRecord ==
    (/\ lastMut.op = "write"
     /\ lastMut.err = ""
     /\ broadcastManager.transport = "storage"
     /\ driver.kind = "local"
     /\ globalConfig.namespace # NoNs
     /\ timers = <<>>)
    => /\ getEnvelopeKey(lastMut.key) \in DOMAIN localStorage
       /\ (lastQuery.op = "read" /\ lastQuery.key = lastMut.key)
          => lastQuery.res.val = lastMut.data
       /\ (lastQuery.op = "keys" /\ lastQuery.prefix = <<>>)
          => lastMut.key \in Range(lastQuery.res)

\* C36: a setup() that throws because the requested driver is unavailable
\* leaves the configuration, the driver, the broadcast manager and the
\* encryption key as they were before the call.
C36_FailedSetupChangesNothing ==
    [][(/\ nCalls' = nCalls + 1
        /\ lastMut'.op = "setup"
        /\ lastMut'.err = "driver-unavailable")
       => UNCHANGED <<globalConfig, driver, broadcastManager, encryptionKey,
                      pendingKeys>>]_vars

\* the encryption key in place is the one the envelope was written with, or
\* there is none and the envelope is not encrypted
WrittenWithCurrentKey(e) ==
    IF encryptionKey = NoKey THEN ~isEncrypted(e.data)
    ELSE \E i \in 1..Len(e.data.wraps) : e.data.wraps[i] = <<"aes-gcm">> \o encryptionKey

\* C37: for every options.v, a read(k) that follows a completed
\* write(k, x, {v: n}) under the same configuration and encryption key, with
\* the record still stored, returns x.
C37_RoundTripEveryVersion ==
    (/\ lastMut.op = "write"
     /\ lastMut.err = ""
     /\ lastQuery.op = "read"
     /\ lastQuery.err = ""
     /\ lastQuery.key = lastMut.key
     /\ lastQuery.schema # "rejects"
     /\ LET got == driverRead(Stores, driver, getEnvelopeKey(lastMut.key))
        IN got.found /\ got.e = lastMut.envelope
     /\ WrittenWithCurrentKey(lastMut.envelope))
    => lastQuery.res.val = lastMut.data

\* C38: the envelope a completed write persisted has expiresAt exactly when
\* options.ttlMs was supplied, and then expiresAt is the time of the write
\* plus ttlMs; a later read of a record written with ttlMs = 0 finds it
\* expired.
C38_ExpiresAtFromTtl ==
    (lastMut.op = "write" /\ lastMut.err = "")
    => /\ (lastMut.envelope.expiresAt # Undefined) <=> (lastMut.ttlMs # Undefined)
       /\ lastMut.ttlMs # Undefined
          => lastMut.envelope.expiresAt = lastMut.at + lastMut.ttlMs
       /\ (/\ lastMut.ttlMs = 0
           /\ lastQuery.op = "read"
           /\ lastQuery.err = ""
           /\ lastQuery.key = lastMut.key
           /\ lastQuery.at > lastMut.at)
          => lastQuery.res.val = JsNull

\* C39: a render of StorageProvider with the config of the previous render
\* leaves every stored value in place: each key reads afterwards as it read
\* before, with the memory driver as with the local driver.
C39_RerenderKeepsValues ==
    [][(/\ provider.config # NoConfig
        /\ provider'.config = provider.config
        /\ provider'.effect = provider.effect
        /\ nCalls' = nCalls + 1
        /\ lastMut'.op = "setup")
       => \A key \in KeysOf(scope) :
              readResult(key, "none")' = readResult(key, "none")]_vars

====
